---- MODULE Spec2Model ----
(***************************************************************************)
(* Model of the DrCastiel dashboard backend:                               *)
(*   src/status_api.py      /api/status: local metrics, service states,    *)
(*                          concurrent endpoint probes, health verdict     *)
(*   src/local_dashboard.py session gate, Google OAuth callback, logout    *)
(*                                                                         *)
(* Conventions.  A Python Optional value is a sequence of length <= 1:     *)
(* None is <<>> and a present value v is <<v>>.  A Python float is an      *)
(* integer number of tenths of its unit (percent, degree Celsius) or of    *)
(* halves (seconds, milliseconds), as stated at each use.                  *)
(***************************************************************************)
EXTENDS Integers, Sequences, FiniteSets, TLC

VARIABLES
    args,          \* pure-function harness: the call being evaluated
    result,        \* pure-function harness: what the call returned
    pc,            \* api_status: position of the request-handling thread
    os,            \* api_status: what each OS source answered in this request
    loc,           \* api_status: locals uptime_s, temp_c, mem, disk, net, pi
    futures,       \* _public_endpoint_status: one future per endpoint
    results_by_id, \* _public_endpoint_status: dict, in insertion order
    ordered,       \* _public_endpoint_status: the list being returned
    services,      \* api_status: service records built so far
    payload,       \* api_status: the JSON body, once returned
    config,        \* local_dashboard: environment read at import time
    session,       \* local_dashboard: the browser's signed session cookie
    response,      \* local_dashboard: how the last request was answered
    hist           \* local_dashboard: the OAuth callbacks and logouts so far

None == <<>>
Some(v) == <<v>>

\* n whole units expressed in tenths (used_pct and temp_c are in tenths)
Tenths(n) == n * 10

(***************************************************************************)
(* _human_uptime, status_api.py:85-96                                      *)
(***************************************************************************)
\* int(seconds): truncation toward zero of a float given in half-seconds
IntOfSeconds(x) == IF x >= 0 THEN x \div 2 ELSE -((-x) \div 2)

\* Python divmod(a, b) for b > 0: floor division and non-negative remainder
divmod(a, b) == <<a \div b, a % b>>

HumanUptimeDaysOnly(seconds) ==
    IF seconds = None THEN None
    ELSE LET s == IntOfSeconds(seconds[1])
             d1 == divmod(s, 86400)
             d2 == divmod(d1[2], 3600)
             d3 == divmod(d2[2], 60)
             days == d1[1]
             hrs == d2[1]
             mins == d3[1]
         IN  IF days > 0
             THEN Some(ToString(days) \o "d " \o ToString(hrs) \o "h " \o ToString(mins) \o "m")
             ELSE Some(ToString(mins) \o "m")

_human_uptime(seconds) ==
    IF seconds = None THEN None
    ELSE LET s == IntOfSeconds(seconds[1])
             d1 == divmod(s, 86400)
             d2 == divmod(d1[2], 3600)
             d3 == divmod(d2[2], 60)
             days == d1[1]
             hrs == d2[1]
             mins == d3[1]
         IN  IF days > 0
             THEN Some(ToString(days) \o "d " \o ToString(hrs) \o "h " \o ToString(mins) \o "m")
             ELSE IF hrs > 0
             THEN Some(ToString(hrs) \o "h " \o ToString(mins) \o "m")
             ELSE Some(ToString(mins) \o "m")

(***************************************************************************)
(* _health, status_api.py:172-195                                          *)
(***************************************************************************)
HealthInclusiveUpper(mem, disk, temp_c) ==
    LET memScore ==
            IF mem # None
            THEN IF mem[1].used_pct < Tenths(80) THEN 1
                 ELSE IF mem[1].used_pct <= Tenths(90) THEN 0
                 ELSE -1
            ELSE 0
        diskScore ==
            IF disk # None
            THEN IF disk[1].used_pct < Tenths(80) THEN 1
                 ELSE IF disk[1].used_pct <= Tenths(90) THEN 0
                 ELSE -1
            ELSE 0
        tempScore ==
            IF temp_c # None
            THEN IF temp_c[1] < Tenths(70) THEN 1
                 ELSE IF temp_c[1] <= Tenths(80) THEN 0
                 ELSE -1
            ELSE 0
        score == memScore + diskScore + tempScore
    IN  IF score >= 2 THEN "good"
        ELSE IF score <= -1 THEN "bad"
        ELSE "warn"

_health(mem, disk, temp_c) ==
    LET memScore ==
            IF mem # None
            THEN IF mem[1].used_pct < Tenths(80) THEN 1
                 ELSE IF mem[1].used_pct < Tenths(90) THEN 0
                 ELSE -1
            ELSE 0
        diskScore ==
            IF disk # None
            THEN IF disk[1].used_pct < Tenths(80) THEN 1
                 ELSE IF disk[1].used_pct < Tenths(90) THEN 0
                 ELSE -1
            ELSE 0
        tempScore ==
            IF temp_c # None
            THEN IF temp_c[1] < Tenths(70) THEN 1
                 ELSE IF temp_c[1] < Tenths(80) THEN 0
                 ELSE -1
            ELSE 0
        score == memScore + diskScore + tempScore
    IN  IF score >= 2 THEN "good"
        ELSE IF score <= -1 THEN "bad"
        ELSE "warn"

(***************************************************************************)
(* _run and _systemctl_active_state, status_api.py:56-75                   *)
(*                                                                         *)
(* Text is a sequence of tokens; the token "\n" is a line break.  The      *)
(* outcome of the subprocess is [kind, stdout]: kind "ok" is exit status 0 *)
(* within the timeout, every other kind makes check_output raise.          *)
(***************************************************************************)
IsSpace(tok) == tok = "\n"

RECURSIVE lstrip(_)
lstrip(text) ==
    IF text # <<>> /\ IsSpace(Head(text)) THEN lstrip(Tail(text)) ELSE text

RECURSIVE rstrip(_)
rstrip(text) ==
    IF text # <<>> /\ IsSpace(text[Len(text)])
    THEN rstrip(SubSeq(text, 1, Len(text) - 1))
    ELSE text

strip(text) == rstrip(lstrip(text))

\* str.splitlines(): "" has no lines, a final line break opens no new line
RECURSIVE splitlines(_)
splitlines(text) ==
    IF text = <<>> THEN <<>>
    ELSE IF \E i \in 1..Len(text) : text[i] = "\n"
    THEN LET i == CHOOSE k \in 1..Len(text) :
                     text[k] = "\n" /\ \A j \in 1..(k - 1) : text[j] # "\n"
         IN  <<SubSeq(text, 1, i - 1)>> \o splitlines(SubSeq(text, i + 1, Len(text)))
    ELSE <<text>>

RunKeepsFailedOutput(proc) == strip(proc.stdout)

_run(proc) == IF proc.kind = "ok" THEN strip(proc.stdout) ELSE <<>>

\* line.startswith(key + "=")
startswith(line, key) == Len(line) >= 2 /\ line[1] = key /\ line[2] = "="

\* line.split("=", 1)[1] or None, for a line that contains "="
AfterEquals(line) ==
    LET i == CHOOSE k \in 1..Len(line) :
                 line[k] = "=" /\ \A j \in 1..(k - 1) : line[j] # "="
        text == SubSeq(line, i + 1, Len(line))
    IN  IF text = <<>> THEN None ELSE Some(text)

RECURSIVE ParseStates(_, _, _)
ParseStates(lines, active, sub) ==
    IF lines = <<>> THEN <<active, sub>>
    ELSE LET line == Head(lines)
         IN  IF startswith(line, "ActiveState")
             THEN ParseStates(Tail(lines), AfterEquals(line), sub)
             ELSE IF startswith(line, "SubState")
             THEN ParseStates(Tail(lines), active, AfterEquals(line))
             ELSE ParseStates(Tail(lines), active, sub)

_systemctl_active_state(unit, proc) ==
    LET out == _run(proc)
        st == ParseStates(splitlines(out), None, None)
    IN  [unit |-> unit, active_state |-> st[1], sub_state |-> st[2]]

(***************************************************************************)
(* _probe_http, status_api.py:197-231                                      *)
(*                                                                         *)
(* The outcome of the network exchange is [kind, status, err]:             *)
(*   "setup_error" Request(...) or ssl.create_default_context() raises,    *)
(*                 before the try block                                    *)
(*   "response"    urlopen returns a response whose status attribute is    *)
(*                 status (None when missing)                              *)
(*   "HTTPError"   urlopen raises HTTPError whose code attribute is status *)
(*   "error"       urlopen raises any other Exception, err                 *)
(* elapsed is the perf_counter difference in half-milliseconds.            *)
(***************************************************************************)
NoErr == [cls |-> "", text |-> ""]

\* str(err): URLError prints its reason inside "<urlopen error ...>",
\* the other exception classes print their message
StrOfErr(err) ==
    IF err.cls = "URLError" THEN "<urlopen error " \o err.text \o ">" ELSE err.text

\* round(x) of a float given in halves: ties go to the even integer
round(halves) ==
    LET q == halves \div 2
    IN  IF halves % 2 = 0 THEN q
        ELSE IF q % 2 = 0 THEN q ELSE q + 1

\* int(getattr(obj, attr, 0) or 0)
IntOr0(attr) == IF attr = None THEN 0 ELSE attr[1]

Return(v) == [raised |-> FALSE, value |-> v]

ProbeResult(ok, http_status, latency_ms, error) ==
    [ok |-> ok, http_status |-> http_status, latency_ms |-> latency_ms, error |-> error]

Raised == [raised |-> TRUE, value |-> ProbeResult(FALSE, None, None, None)]

ProbeHttpOkBelow400(outcome, elapsed) ==
    IF outcome.kind = "setup_error" THEN Raised
    ELSE IF outcome.kind = "response"
    THEN LET status == IntOr0(outcome.status)
         IN  Return(ProbeResult(200 <= status /\ status < 400, Some(status),
                                Some(round(elapsed)), None))
    ELSE IF outcome.kind = "HTTPError"
    THEN LET status == IntOr0(outcome.status)
         IN  Return(ProbeResult(200 <= status /\ status < 400,
                                IF status = 0 THEN None ELSE Some(status),
                                Some(round(elapsed)), None))
    ELSE Return(ProbeResult(FALSE, None, Some(round(elapsed)), Some(StrOfErr(outcome.err))))

ProbeHttpErrorDropped(outcome, elapsed) ==
    IF outcome.kind = "setup_error" THEN Raised
    ELSE IF outcome.kind = "response"
    THEN LET status == IntOr0(outcome.status)
         IN  Return(ProbeResult(200 <= status /\ status < 500, Some(status),
                                Some(round(elapsed)), None))
    ELSE IF outcome.kind = "HTTPError"
    THEN LET status == IntOr0(outcome.status)
         IN  Return(ProbeResult(200 <= status /\ status < 500,
                                IF status = 0 THEN None ELSE Some(status),
                                Some(round(elapsed)), None))
    ELSE Return(ProbeResult(FALSE, None, Some(round(elapsed)), None))

_probe_http(outcome, elapsed) ==
    IF outcome.kind = "setup_error" THEN Raised
    ELSE IF outcome.kind = "response"
    THEN LET status == IntOr0(outcome.status)
         IN  Return(ProbeResult(200 <= status /\ status < 500, Some(status),
                                Some(round(elapsed)), None))
    ELSE IF outcome.kind = "HTTPError"
    THEN LET status == IntOr0(outcome.status)
         IN  Return(ProbeResult(200 <= status /\ status < 500,
                                IF status = 0 THEN None ELSE Some(status),
                                Some(round(elapsed)), None))
    ELSE Return(ProbeResult(FALSE, None, Some(round(elapsed)), Some(StrOfErr(outcome.err))))

(***************************************************************************)
(* Local metrics, status_api.py:77-170.  A raw OS answer is a record whose *)
(* field st is "raise" when the call raises, and "ok" otherwise.           *)
(***************************************************************************)
_uptime_seconds(psutil, now, boot) ==
    IF ~psutil THEN None
    ELSE IF boot.st = "raise" THEN None
    ELSE Some(now - boot.v)

\* first group of psutil.sensors_temperatures() that has entries
RECURSIVE FirstCurrent(_)
FirstCurrent(groups) ==
    IF groups = <<>> THEN None
    ELSE IF Head(groups) # <<>> THEN Some(Head(groups)[1])
    ELSE FirstCurrent(Tail(groups))

\* a thermal zone file holds millidegrees; float(raw) / 1000.0 in tenths
ZoneTemp(zone) ==
    IF zone.st = "ok" /\ zone.isdigit THEN Some(zone.v \div 100) ELSE None

_cpu_temp_c(z0, z1, psutil, sensors) ==
    IF ZoneTemp(z0) # None THEN ZoneTemp(z0)
    ELSE IF ZoneTemp(z1) # None THEN ZoneTemp(z1)
    ELSE IF psutil /\ sensors.st = "ok" THEN FirstCurrent(sensors.v)
    ELSE None

_load_1m(load) == IF load.st = "raise" THEN None ELSE Some(load.v)

_mem_stats(psutil, vm) ==
    IF ~psutil THEN None
    ELSE IF vm.st = "raise" THEN None
    ELSE Some([total_bytes |-> vm.total, used_bytes |-> vm.used, used_pct |-> vm.percent])

\* without psutil: shutil.disk_usage and (used / total) * 100.0, in tenths
_disk_stats(psutil, du) ==
    IF du.st = "raise" THEN None
    ELSE IF ~psutil
    THEN Some([total_bytes |-> du.total, used_bytes |-> du.used,
               used_pct |-> IF du.total # 0 THEN (du.used * 1000) \div du.total ELSE 0])
    ELSE Some([total_bytes |-> du.total, used_bytes |-> du.used, used_pct |-> du.percent])

_net_io(psutil, io) ==
    IF ~psutil THEN None
    ELSE IF io.st = "raise" THEN None
    ELSE Some([tx_bytes |-> io.bytes_sent, rx_bytes |-> io.bytes_recv])

(***************************************************************************)
(* _public_endpoint_status, status_api.py:233-259                          *)
(***************************************************************************)
PUBLIC_ENDPOINTS ==
    << [id |-> "dev", name |-> "Crown Dev Site", url |-> "https://dev.drcastiel.com"],
       [id |-> "admin", name |-> "Admin Portal", url |-> "https://admin.drcastiel.com"],
       [id |-> "home", name |-> "DrCastiel Home", url |-> "https://drcastiel.com"] >>

N == Len(PUBLIC_ENDPOINTS)

\* max_workers = min(len(PUBLIC_ENDPOINTS), 4)
max_workers == IF N < 4 THEN N ELSE 4

\* the task of one endpoint: (endpoint["id"], _probe_http(endpoint["url"]))
_check(endpoint, outcome, elapsed) ==
    LET r == _probe_http(outcome, elapsed)
    IN  [raised |-> r.raised, endpoint_id |-> endpoint.id, result |-> r.value]

NoTaskResult ==
    [raised |-> FALSE, endpoint_id |-> "", result |-> ProbeResult(FALSE, None, None, None)]

\* a future: unsubmitted, pending (queued), running or finished; seen once
\* as_completed has yielded it
NewFuture == [st |-> "unsubmitted", seen |-> FALSE, out |-> NoTaskResult]

Running == { i \in 1..N : futures[i].st = "running" }

AllFinished == \A i \in 1..N : futures[i].st \in {"unsubmitted", "finished"}

\* the with block ends when as_completed is exhausted and shutdown(wait=True)
\* has joined the workers
WithPoolDoneFirstCompleted == \E i \in 1..N : futures[i].seen

WithPoolDone ==
    /\ \A i \in 1..N : futures[i].seen
    /\ \A i \in 1..N : futures[i].st = "finished"

\* results_by_id.get(id, default)
DictGet(dict, id, default) ==
    IF \E k \in 1..Len(dict) : dict[k].id = id
    THEN dict[CHOOSE k \in 1..Len(dict) : dict[k].id = id].result
    ELSE default

\* results_by_id[id] = result: a new key goes last, an old key keeps its place
DictSet(dict, id, res) ==
    IF \E k \in 1..Len(dict) : dict[k].id = id
    THEN [k \in 1..Len(dict) |-> IF dict[k].id = id THEN [id |-> id, result |-> res] ELSE dict[k]]
    ELSE Append(dict, [id |-> id, result |-> res])

ProbeFailed == ProbeResult(FALSE, None, None, Some("Probe failed"))

Entry(endpoint, res) ==
    [id |-> endpoint.id, name |-> endpoint.name, url |-> endpoint.url,
     ok |-> res.ok, http_status |-> res.http_status,
     latency_ms |-> res.latency_ms, error |-> res.error]

\* the endpoint of the k-th iteration of "for endpoint in PUBLIC_ENDPOINTS"
AssembleInCompletionOrder(k) ==
    LET id == results_by_id[k].id
    IN  PUBLIC_ENDPOINTS[CHOOSE i \in 1..N : PUBLIC_ENDPOINTS[i].id = id]

AssembleEndpoint(k) == PUBLIC_ENDPOINTS[k]

(***************************************************************************)
(* local_dashboard.py.  A path is the sequence of its segments: "/" is     *)
(* <<>> and "/api/status" is <<"api", "status">>.  An e-mail string is     *)
(* [addr, upper, padded]: its lower-case, stripped text, whether it has    *)
(* upper-case letters and whether it has surrounding blanks.               *)
(***************************************************************************)
Email(addr, upper, padded) == [addr |-> addr, upper |-> upper, padded |-> padded]

\* value.strip().lower()
StripLower(e) == Email(e.addr, FALSE, FALSE)

\* ALLOWED_EMAILS (21-25): the non-blank entries, stripped and lower-cased
AllowedEmails(entries) == { StripLower(e) : e \in { x \in entries : x.addr # "" } }

\* GOOGLE_AUTH_CONFIGURED (27)
GoogleAuthConfigured(cfg) == cfg.client_id # "" /\ cfg.client_secret # ""

\* ALLOWLIST_CONFIGURED (28)
AllowlistConfigured(cfg) == AllowedEmails(cfg.allowed_env) # {}

NoSession == [user_email |-> None, user_name |-> None]

\* _is_authenticated (42-43): bool(session.get("user_email"))
_is_authenticated(sess) == sess.user_email # None /\ sess.user_email[1].addr # ""

public_paths ==
    { <<"login">>, <<"login", "google">>, <<"auth", "google">>, <<"logout">>, <<"healthz">> }

\* require_authentication (46-61): "pass", or the response of the gate
require_authentication(path, sess) ==
    IF path \in public_paths THEN "pass"
    ELSE IF path = <<"favicon.ico">> THEN "pass"
    ELSE IF ~_is_authenticated(sess)
    THEN IF Len(path) >= 2 /\ path[1] = "api" THEN "401" ELSE "redirect_login"
    ELSE "pass"

\* auth_google (115-136) once the token exchange has returned userinfo:
\* the new session and the status of the response
AuthGoogleNoAllowlist(cfg, sess, userinfo) ==
    LET email == StripLower(userinfo.email)
        is_verified == userinfo.email_verified = Some(TRUE)
    IN  IF email.addr = "" \/ ~is_verified
        THEN [session |-> NoSession, status |-> 403]
        ELSE [session |-> [user_email |-> Some(email),
                           user_name |-> IF userinfo.name # "" THEN Some(userinfo.name)
                                         ELSE Some(email.addr)],
              status |-> 302]

auth_google(cfg, sess, userinfo) ==
    LET email == StripLower(userinfo.email)
        is_verified == userinfo.email_verified = Some(TRUE)
    IN  IF email.addr = "" \/ ~is_verified
        THEN [session |-> NoSession, status |-> 403]
        ELSE IF email \notin AllowedEmails(cfg.allowed_env)
        THEN [session |-> NoSession, status |-> 403]
        ELSE [session |-> [user_email |-> Some(email),
                           user_name |-> IF userinfo.name # "" THEN Some(userinfo.name)
                                         ELSE Some(email.addr)],
              status |-> 302]

vars == <<args, result, pc, os, loc, futures, results_by_id, ordered, services, payload,
          config, session, response, hist>>

apiVars == <<pc, os, loc, futures, results_by_id, ordered, services, payload>>

harnessVars == <<args, result>>

authVars == <<config, session, response, hist>>

NoCallback == [kind |-> "none", email |-> Email("", FALSE, FALSE), verified |-> FALSE]

\* the dashboard application is not part of the run
AuthOff ==
    /\ config = [client_id |-> "", client_secret |-> "", allowed_env |-> {}]
    /\ session = NoSession
    /\ response = [path |-> <<>>, authed |-> FALSE, view |-> "none", status |-> 0]
    /\ hist = [last |-> NoCallback, decided |-> NoCallback,
               logout_since_last |-> FALSE, logout_since_decided |-> FALSE]

Unread == [st |-> "unread"]

\* no request is being served (the pure-function harnesses)
ApiOff ==
    /\ pc = "off"
    /\ os = [psutil |-> TRUE]
    /\ loc = [uptime_s |-> None]
    /\ futures = [i \in 1..N |-> NewFuture]
    /\ results_by_id = <<>>
    /\ ordered = <<>>
    /\ services = <<>>
    /\ payload = None

HarnessOff ==
    /\ args = [fn |-> "none"]
    /\ result = None

(***************************************************************************)
(* api_status, status_api.py:266-294: one request, from the first local    *)
(* read to the response.  psutil is None when its import failed (37-40).   *)
(***************************************************************************)
BootAnswers == { [st |-> "raise", v |-> 0], [st |-> "ok", v |-> 12600] }

Zone0Answers ==
    { [st |-> "raise", isdigit |-> FALSE, v |-> 0],
      [st |-> "ok", isdigit |-> FALSE, v |-> 0],
      [st |-> "ok", isdigit |-> TRUE, v |-> 40000] }

Zone1Answers ==
    { [st |-> "raise", isdigit |-> FALSE, v |-> 0],
      [st |-> "ok", isdigit |-> TRUE, v |-> 85000] }

SensorAnswers ==
    { [st |-> "raise", v |-> <<>>],
      [st |-> "ok", v |-> <<>>],
      [st |-> "ok", v |-> << <<>>, <<550, 600>> >>] }

LoadAnswers == { [st |-> "raise", v |-> 0], [st |-> "ok", v |-> 15] }

VmAnswers ==
    { [st |-> "raise", total |-> 0, used |-> 0, percent |-> 0],
      [st |-> "ok", total |-> 4000, used |-> 2000, percent |-> 500] }

DuAnswers ==
    { [st |-> "raise", total |-> 0, used |-> 0, percent |-> 0],
      [st |-> "ok", total |-> 1000, used |-> 950, percent |-> 950] }

IoAnswers ==
    { [st |-> "raise", bytes_sent |-> 0, bytes_recv |-> 0],
      [st |-> "ok", bytes_sent |-> 7, bytes_recv |-> 9] }

ServiceAnswers ==
    { [kind |-> "timeout", stdout |-> <<>>],
      [kind |-> "ok",
       stdout |-> <<"ActiveState", "=", "active", "\n", "SubState", "=", "running", "\n">>] }

EndpointOutcomes ==
    { [kind |-> "setup_error", status |-> None, err |-> NoErr],
      [kind |-> "response", status |-> Some(200), err |-> NoErr],
      [kind |-> "HTTPError", status |-> Some(503), err |-> NoErr],
      [kind |-> "error", status |-> None, err |-> [cls |-> "URLError", text |-> "timed out"]] }

\* the services dict of the payload, in evaluation order
SERVICE_UNITS ==
    << [key |-> "cloudflared", unit |-> "cloudflared.service"],
       [key |-> "gunicorn", unit |-> "crown-admin.service"],
       [key |-> "nginx", unit |-> "nginx.service"] >>

Init ==
    /\ HarnessOff
    /\ AuthOff
    /\ pc = "uptime"
    /\ os \in { [psutil |-> b, boot |-> Unread, z0 |-> Unread, z1 |-> Unread,
                 sensors |-> Unread, vm |-> Unread, du |-> Unread, io |-> Unread,
                 load |-> Unread, svc |-> <<>>] : b \in BOOLEAN }
    /\ loc = [uptime_s |-> None]
    /\ futures = [i \in 1..N |-> NewFuture]
    /\ results_by_id = <<>>
    /\ ordered = <<>>
    /\ services = <<>>
    /\ payload = None

\* uptime_s = _uptime_seconds()
ReadUptime ==
    /\ pc = "uptime"
    /\ \E boot \in (IF os.psutil THEN BootAnswers ELSE {Unread}) :
          /\ os' = [os EXCEPT !.boot = boot]
          /\ loc' = [uptime_s |-> _uptime_seconds(os.psutil, 20000, boot)]
    /\ pc' = "temp"
    /\ UNCHANGED <<futures, results_by_id, ordered, services, payload, harnessVars, authVars>>

\* temp_c = _cpu_temp_c(): a later source is read only when the earlier fail
ReadTemp ==
    /\ pc = "temp"
    /\ \E z0 \in Zone0Answers, z1 \in Zone1Answers \cup {Unread},
          sn \in SensorAnswers \cup {Unread} :
          /\ (z1 = Unread) <=> (ZoneTemp(z0) # None)
          /\ (sn = Unread) <=> (ZoneTemp(z0) # None \/ ZoneTemp(z1) # None \/ ~os.psutil)
          /\ os' = [os EXCEPT !.z0 = z0, !.z1 = z1, !.sensors = sn]
          /\ loc' = [uptime_s |-> loc.uptime_s,
                     temp_c |-> _cpu_temp_c(z0, z1, os.psutil, sn)]
    /\ pc' = "mem"
    /\ UNCHANGED <<futures, results_by_id, ordered, services, payload, harnessVars, authVars>>

\* mem = _mem_stats()
ReadMem ==
    /\ pc = "mem"
    /\ \E vm \in (IF os.psutil THEN VmAnswers ELSE {Unread}) :
          /\ os' = [os EXCEPT !.vm = vm]
          /\ loc' = [uptime_s |-> loc.uptime_s, temp_c |-> loc.temp_c,
                     mem |-> _mem_stats(os.psutil, vm)]
    /\ pc' = "disk"
    /\ UNCHANGED <<futures, results_by_id, ordered, services, payload, harnessVars, authVars>>

\* disk = _disk_stats("/")
ReadDisk ==
    /\ pc = "disk"
    /\ \E du \in DuAnswers :
          /\ os' = [os EXCEPT !.du = du]
          /\ loc' = [uptime_s |-> loc.uptime_s, temp_c |-> loc.temp_c, mem |-> loc.mem,
                     disk |-> _disk_stats(os.psutil, du)]
    /\ pc' = "net"
    /\ UNCHANGED <<futures, results_by_id, ordered, services, payload, harnessVars, authVars>>

\* net = _net_io(); the payload literal then calls _public_endpoint_status()
ReadNet ==
    /\ pc = "net"
    /\ \E io \in (IF os.psutil THEN IoAnswers ELSE {Unread}) :
          /\ os' = [os EXCEPT !.io = io]
          /\ loc' = [uptime_s |-> loc.uptime_s, temp_c |-> loc.temp_c, mem |-> loc.mem,
                     disk |-> loc.disk, net |-> _net_io(os.psutil, io)]
    /\ pc' = "submit"
    /\ UNCHANGED <<futures, results_by_id, ordered, services, payload, harnessVars, authVars>>

\* futures = [pool.submit(_check, endpoint) for endpoint in PUBLIC_ENDPOINTS]
Submit(i) ==
    /\ pc = "submit"
    /\ futures[i].st = "unsubmitted"
    /\ \A j \in 1..(i - 1) : futures[j].st # "unsubmitted"
    /\ futures' = [futures EXCEPT ![i].st = "pending"]
    /\ pc' = IF i = N THEN "collect" ELSE "submit"
    /\ UNCHANGED <<os, loc, results_by_id, ordered, services, payload, harnessVars, authVars>>

\* a worker thread takes the oldest queued task
Start(i) ==
    /\ futures[i].st = "pending"
    /\ \A j \in 1..(i - 1) : futures[j].st # "pending"
    /\ Cardinality(Running) < max_workers
    /\ futures' = [futures EXCEPT ![i].st = "running"]
    /\ UNCHANGED <<pc, os, loc, results_by_id, ordered, services, payload, harnessVars, authVars>>

\* the task returns or raises; the future keeps the result or the exception
Finish(i) ==
    /\ futures[i].st = "running"
    /\ \E outcome \in EndpointOutcomes :
          futures' = [futures EXCEPT
                        ![i].st = "finished",
                        ![i].out = _check(PUBLIC_ENDPOINTS[i], outcome, 3)]
    /\ UNCHANGED <<pc, os, loc, results_by_id, ordered, services, payload, harnessVars, authVars>>

\* one iteration of "for future in as_completed(futures)": future.result()
\* re-raises the exception of the task, which leaves the with block
Yield(i) ==
    /\ pc = "collect"
    /\ futures[i].st = "finished"
    /\ ~futures[i].seen
    /\ futures' = [futures EXCEPT ![i].seen = TRUE]
    /\ IF futures[i].out.raised
       THEN /\ pc' = "unwind"
            /\ UNCHANGED results_by_id
       ELSE /\ pc' = "collect"
            /\ results_by_id' =
                   DictSet(results_by_id, futures[i].out.endpoint_id, futures[i].out.result)
    /\ UNCHANGED <<os, loc, ordered, services, payload, harnessVars, authVars>>

\* the exception leaves the with block: shutdown(wait=True), then it
\* propagates out of _public_endpoint_status and out of api_status
Unwind ==
    /\ pc = "unwind"
    /\ AllFinished
    /\ pc' = "error"
    /\ UNCHANGED <<os, loc, futures, results_by_id, ordered, services, payload, harnessVars, authVars>>

LeavePool ==
    /\ pc = "collect"
    /\ WithPoolDone
    /\ pc' = "assemble"
    /\ UNCHANGED <<os, loc, futures, results_by_id, ordered, services, payload, harnessVars, authVars>>

\* one iteration of the loop that builds ordered
Assemble ==
    /\ pc = "assemble"
    /\ Len(ordered) < N
    /\ LET endpoint == AssembleEndpoint(Len(ordered) + 1)
           endpoint_result == DictGet(results_by_id, endpoint.id, ProbeFailed)
       IN  ordered' = Append(ordered, Entry(endpoint, endpoint_result))
    /\ UNCHANGED <<pc, os, loc, futures, results_by_id, services, payload, harnessVars, authVars>>

\* return ordered: the dict goes out of scope
ReturnOrdered ==
    /\ pc = "assemble"
    /\ Len(ordered) = N
    /\ results_by_id' = <<>>
    /\ pc' = "pi"
    /\ UNCHANGED <<os, loc, futures, ordered, services, payload, harnessVars, authVars>>

\* the "pi" dict: _human_uptime, _load_1m(), _health
BuildPi ==
    /\ pc = "pi"
    /\ \E load \in LoadAnswers :
          /\ os' = [os EXCEPT !.load = load]
          /\ loc' = [uptime_s |-> loc.uptime_s, temp_c |-> loc.temp_c, mem |-> loc.mem,
                     disk |-> loc.disk, net |-> loc.net,
                     pi |-> [uptime_seconds |-> loc.uptime_s,
                             uptime_human |-> _human_uptime(loc.uptime_s),
                             cpu_temp_c |-> loc.temp_c,
                             load_1m |-> _load_1m(load),
                             mem |-> loc.mem,
                             disk |-> loc.disk,
                             net |-> loc.net,
                             health |-> _health(loc.mem, loc.disk, loc.temp_c)]]
    /\ pc' = "services"
    /\ UNCHANGED <<futures, results_by_id, ordered, services, payload, harnessVars, authVars>>

\* the next entry of the "services" dict
QueryService ==
    /\ pc = "services"
    /\ Len(services) < Len(SERVICE_UNITS)
    /\ \E proc \in ServiceAnswers :
          /\ os' = [os EXCEPT !.svc = Append(os.svc, proc)]
          /\ services' = Append(services,
                 _systemctl_active_state(SERVICE_UNITS[Len(services) + 1].unit, proc))
    /\ UNCHANGED <<pc, loc, futures, results_by_id, ordered, payload, harnessVars, authVars>>

\* return jsonify(payload)
Respond ==
    /\ pc = "services"
    /\ Len(services) = Len(SERVICE_UNITS)
    /\ payload' = Some([ts |-> "%Y-%m-%dT%H:%M:%SZ",
                        public_endpoints |-> ordered,
                        pi |-> loc.pi,
                        services |-> [k \in { SERVICE_UNITS[j].key : j \in 1..Len(SERVICE_UNITS) } |->
                                        services[CHOOSE j \in 1..Len(SERVICE_UNITS) :
                                                     SERVICE_UNITS[j].key = k]]])
    /\ pc' = "done"
    /\ UNCHANGED <<os, loc, futures, results_by_id, ordered, services, harnessVars, authVars>>

Next ==
    \/ ReadUptime
    \/ ReadTemp
    \/ ReadMem
    \/ ReadDisk
    \/ ReadNet
    \/ \E i \in 1..N : Submit(i)
    \/ \E i \in 1..N : Start(i)
    \/ \E i \in 1..N : Finish(i)
    \/ \E i \in 1..N : Yield(i)
    \/ Unwind
    \/ LeavePool
    \/ Assemble
    \/ ReturnOrdered
    \/ BuildPi
    \/ QueryService
    \/ Respond

Spec == Init /\ [][Next]_vars

(***************************************************************************)
(* The dashboard application: every request first passes                   *)
(* require_authentication, then its view runs.  response records the path, *)
(* whether the session was authenticated when the request arrived, who     *)
(* answered ("gate" or the view) and the status.                           *)
(***************************************************************************)
EnvClientIds == {"", "client-id"}

EnvClientSecrets == {"", "client-secret"}

EnvAllowedEmails ==
    { {},
      {Email("", FALSE, TRUE)},
      {Email("ann@x", TRUE, TRUE)},
      {Email("ann@x", FALSE, FALSE), Email("bob@x", FALSE, FALSE)} }

UserinfoInputs ==
    { [email |-> e, email_verified |-> v, name |-> n] :
        e \in { Email("", FALSE, FALSE), Email("ann@x", FALSE, FALSE),
                Email("ann@x", TRUE, TRUE), Email("bob@x", FALSE, FALSE),
                Email("eve@x", FALSE, FALSE) },
        v \in {None, Some(FALSE), Some(TRUE)},
        n \in {"", "Ann"} }

OtherPaths == { <<"favicon.ico">>, <<"api", "other">>, <<"styles.css">> }

InitAuth ==
    /\ HarnessOff
    /\ ApiOff
    /\ config \in { [client_id |-> id, client_secret |-> sec, allowed_env |-> al] :
                      id \in EnvClientIds, sec \in EnvClientSecrets, al \in EnvAllowedEmails }
    /\ session = NoSession
    /\ response = [path |-> <<>>, authed |-> FALSE, view |-> "none", status |-> 0]
    /\ hist = [last |-> NoCallback, decided |-> NoCallback,
               logout_since_last |-> FALSE, logout_since_decided |-> FALSE]

Answer(path, view, status) ==
    [path |-> path, authed |-> _is_authenticated(session), view |-> view, status |-> status]

Paths ==
    public_paths \cup OtherPaths \cup { <<>>, <<"api", "status">> }

\* require_authentication answers instead of the view (56-59); each view
\* below runs only when it returned None
Gated ==
    /\ \E path \in Paths :
          /\ require_authentication(path, session) # "pass"
          /\ response' = Answer(path, "gate",
                 IF require_authentication(path, session) = "401" THEN 401 ELSE 302)
    /\ UNCHANGED <<config, session, hist, harnessVars, apiVars>>

\* GET /healthz (64-66)
Healthz ==
    /\ require_authentication(<<"healthz">>, session) = "pass"
    /\ response' = Answer(<<"healthz">>, "healthz", 200)
    /\ UNCHANGED <<config, session, hist>>
    /\ UNCHANGED <<harnessVars, apiVars>>

\* GET /login (69-104)
Login ==
    /\ require_authentication(<<"login">>, session) = "pass"
    /\ response' = Answer(<<"login">>, "login",
           IF _is_authenticated(session) THEN 302
           ELSE IF ~GoogleAuthConfigured(config) THEN 503
           ELSE IF ~AllowlistConfigured(config) THEN 503
           ELSE 200)
    /\ UNCHANGED <<config, session, hist>>
    /\ UNCHANGED <<harnessVars, apiVars>>

\* GET /login/google (107-112)
LoginGoogle ==
    /\ require_authentication(<<"login", "google">>, session) = "pass"
    /\ response' = Answer(<<"login", "google">>, "login_google",
           IF ~GoogleAuthConfigured(config) \/ ~AllowlistConfigured(config)
           THEN 503 ELSE 302)
    /\ UNCHANGED <<config, session, hist>>
    /\ UNCHANGED <<harnessVars, apiVars>>

\* GET /auth/google (115-136): abort(503) when not configured; the token
\* exchange (120-121) raises or returns userinfo
AuthGoogle ==
    /\ require_authentication(<<"auth", "google">>, session) = "pass"
    /\ \/ /\ ~GoogleAuthConfigured(config) \/ ~AllowlistConfigured(config)
          /\ response' = Answer(<<"auth", "google">>, "auth_google", 503)
          /\ hist' = [hist EXCEPT !.last = [NoCallback EXCEPT !.kind = "unconfigured"],
                                  !.logout_since_last = FALSE]
          /\ UNCHANGED <<config, session>>
       \/ /\ GoogleAuthConfigured(config) /\ AllowlistConfigured(config)
          /\ response' = Answer(<<"auth", "google">>, "auth_google", 500)
          /\ hist' = [hist EXCEPT !.last = [NoCallback EXCEPT !.kind = "exchange_failed"],
                                  !.logout_since_last = FALSE]
          /\ UNCHANGED <<config, session>>
       \/ /\ GoogleAuthConfigured(config) /\ AllowlistConfigured(config)
          /\ \E userinfo \in UserinfoInputs :
                LET r == auth_google(config, session, userinfo)
                    cb == [kind |-> "decided", email |-> userinfo.email,
                           verified |-> (userinfo.email_verified = Some(TRUE))]
                IN  /\ session' = r.session
                    /\ response' = Answer(<<"auth", "google">>, "auth_google", r.status)
                    /\ hist' = [last |-> cb, decided |-> cb,
                                logout_since_last |-> FALSE,
                                logout_since_decided |-> FALSE]
          /\ UNCHANGED config
    /\ UNCHANGED <<harnessVars, apiVars>>

\* GET /logout (139-142)
Logout ==
    /\ require_authentication(<<"logout">>, session) = "pass"
    /\ session' = NoSession
    /\ response' = Answer(<<"logout">>, "logout", 302)
    /\ hist' = [hist EXCEPT !.logout_since_last = TRUE, !.logout_since_decided = TRUE]
    /\ UNCHANGED config
    /\ UNCHANGED <<harnessVars, apiVars>>

\* GET / (145-147)
Index ==
    /\ require_authentication(<<>>, session) = "pass"
    /\ response' = Answer(<<>>, "index", 200)
    /\ UNCHANGED <<config, session, hist>>
    /\ UNCHANGED <<harnessVars, apiVars>>

\* GET /api/status: the blueprint's view (status_api.py:266-294) answers 200,
\* or 500 when an exception leaves it
ApiStatus ==
    /\ require_authentication(<<"api", "status">>, session) = "pass"
    /\ \E status \in {200, 500} :
          response' = Answer(<<"api", "status">>, "api_status", status)
    /\ UNCHANGED <<config, session, hist>>
    /\ UNCHANGED <<harnessVars, apiVars>>

\* any other path falls to the static-file route (14): the file or 404
Static ==
    /\ \E path \in OtherPaths :
          /\ require_authentication(path, session) = "pass"
          /\ \E status \in {200, 404} : response' = Answer(path, "static", status)
          /\ UNCHANGED <<config, session, hist>>
    /\ UNCHANGED <<harnessVars, apiVars>>

NextAuth ==
    \/ Gated
    \/ Healthz
    \/ Login
    \/ LoginGoogle
    \/ AuthGoogle
    \/ Logout
    \/ Index
    \/ ApiStatus
    \/ Static

SpecAuth == InitAuth /\ [][NextAuth]_vars

(***************************************************************************)
(* Harness for _human_uptime: every input of UptimeInputs is formatted.    *)
(***************************************************************************)
MaxDays == 2

\* uptimes in half-seconds: whole and half seconds around every bucket edge
UptimeInputs ==
    {None}
    \cup { Some(2 * (d * 86400 + h * 3600 + m * 60 + sec) + half) :
              d \in 0..MaxDays, h \in {0, 1, 23}, m \in {0, 1, 59},
              sec \in {0, 30, 40, 59}, half \in {0, 1} }
    \cup { Some(-1), Some(-180) }

InitUptime ==
    /\ ApiOff
    /\ AuthOff
    /\ args \in { [fn |-> "_human_uptime", seconds |-> u] : u \in UptimeInputs }
    /\ result = None

CallHumanUptime ==
    /\ args.fn = "_human_uptime"
    /\ result = None
    /\ result' = Some(_human_uptime(args.seconds))
    /\ UNCHANGED <<args, apiVars, authVars>>

NextUptime == CallHumanUptime

SpecUptime == InitUptime /\ [][NextUptime]_vars

(***************************************************************************)
(* Harness for _health.                                                    *)
(***************************************************************************)
\* used_pct readings in tenths of a percent
PctInputs == {0, 500, 799, 800, 899, 900, 950, 1000}

\* temperatures in tenths of a degree
TempInputs == {-50, 400, 699, 700, 799, 800, 850}

MemInputs ==
    {None} \cup { Some([total_bytes |-> 1000, used_bytes |-> p, used_pct |-> p]) : p \in PctInputs }

DiskInputs ==
    {None} \cup { Some([total_bytes |-> 1000, used_bytes |-> p, used_pct |-> p]) : p \in PctInputs }

InitHealth ==
    /\ ApiOff
    /\ AuthOff
    /\ args \in { [fn |-> "_health", mem |-> m, disk |-> d, temp_c |-> t] :
                    m \in MemInputs, d \in DiskInputs,
                    t \in {None} \cup { Some(x) : x \in TempInputs } }
    /\ result = None

CallHealth ==
    /\ args.fn = "_health"
    /\ result = None
    /\ result' = Some(_health(args.mem, args.disk, args.temp_c))
    /\ UNCHANGED <<args, apiVars, authVars>>

NextHealth == CallHealth

SpecHealth == InitHealth /\ [][NextHealth]_vars

(***************************************************************************)
(* Harness for _systemctl_active_state: the service manager's output is    *)
(* up to MaxLines lines, joined by line breaks, with or without a final    *)
(* line break; a failing query may have printed the same text.             *)
(***************************************************************************)
MaxLines == 2

Units == {"cloudflared.service", "crown-admin.service", "nginx.service"}

ProcKinds == {"ok", "missing_binary", "nonzero_exit", "timeout"}

OutputLines ==
    { <<"ActiveState", "=", "active">>,
      <<"ActiveState", "=">>,
      <<"SubState", "=", "running">>,
      <<"SubState", "=">>,
      <<"SubState", "=", "a", "=", "b">>,
      <<"LoadState", "=", "loaded">>,
      <<"warning", "ActiveState", "=", "failed">>,
      <<"ActiveState">>,
      <<>> }

RECURSIVE Join(_)
Join(lines) ==
    IF lines = <<>> THEN <<>>
    ELSE IF Len(lines) = 1 THEN lines[1]
    ELSE lines[1] \o <<"\n">> \o Join(Tail(lines))

LineSeqs == UNION { [1..n -> OutputLines] : n \in 0..MaxLines }

InitSystemctl ==
    /\ ApiOff
    /\ AuthOff
    /\ args \in { [fn |-> "_systemctl_active_state", unit |-> u, lines |-> ls,
                   proc |-> [kind |-> k, stdout |-> Join(ls) \o nl]] :
                    u \in Units, ls \in LineSeqs, k \in ProcKinds,
                    nl \in {<<>>, <<"\n">>} }
    /\ result = None

CallSystemctl ==
    /\ args.fn = "_systemctl_active_state"
    /\ result = None
    /\ result' = Some(_systemctl_active_state(args.unit, args.proc))
    /\ UNCHANGED <<args, apiVars, authVars>>

NextSystemctl == CallSystemctl

SpecSystemctl == InitSystemctl /\ [][NextSystemctl]_vars

(***************************************************************************)
(* Harness for _probe_http.                                                *)
(***************************************************************************)
StatusInputs ==
    {None} \cup { Some(c) : c \in {0, 100, 199, 200, 204, 301, 399, 400, 404,
                                   499, 500, 503, 599} }

ErrInputs ==
    { [cls |-> "URLError", text |-> "[Errno -2] Name or service not known"],
      [cls |-> "URLError", text |-> "[SSL: CERTIFICATE_VERIFY_FAILED]"],
      [cls |-> "URLError", text |-> "[Errno 111] Connection refused"],
      [cls |-> "URLError", text |-> "timed out"],
      [cls |-> "URLError", text |-> ""],
      [cls |-> "TimeoutError", text |-> "The read operation timed out"],
      [cls |-> "ConnectionResetError", text |-> "[Errno 104] Connection reset by peer"] }

ProbeOutcomes ==
    { [kind |-> "setup_error", status |-> None, err |-> NoErr] }
    \cup { [kind |-> k, status |-> st, err |-> NoErr] :
              k \in {"response", "HTTPError"}, st \in StatusInputs }
    \cup { [kind |-> "error", status |-> None, err |-> e] : e \in ErrInputs }

\* elapsed times in half-milliseconds, ties to even on both sides
ElapsedInputs == {0, 1, 2, 3, 5}

InitProbeHttp ==
    /\ ApiOff
    /\ AuthOff
    /\ args \in { [fn |-> "_probe_http", outcome |-> o, elapsed |-> e] :
                    o \in ProbeOutcomes, e \in ElapsedInputs }
    /\ result = None

CallProbeHttp ==
    /\ args.fn = "_probe_http"
    /\ result = None
    /\ result' = Some(_probe_http(args.outcome, args.elapsed))
    /\ UNCHANGED <<args, apiVars, authVars>>

NextProbeHttp == CallProbeHttp

SpecProbeHttp == InitProbeHttp /\ [][NextProbeHttp]_vars

(***************************************************************************)
(* C8: _systemctl_active_state always returns the unit name; when the      *)
(* query fails (missing binary, nonzero exit, timeout) both states are     *)
(* absent; otherwise each state is the text after a line's ActiveState= or *)
(* SubState= prefix, absent when that text is empty, and absent when no    *)
(* line has the prefix.                                                    *)
(***************************************************************************)
C8_HasPrefix(line, key) == Len(line) >= 2 /\ SubSeq(line, 1, 2) = <<key, "=">>

C8_TextAfter(line) ==
    IF Len(line) = 2 THEN None ELSE Some(SubSeq(line, 3, Len(line)))

C8_Candidates(lines, key) ==
    { C8_TextAfter(lines[i]) : i \in { j \in 1..Len(lines) : C8_HasPrefix(lines[j], key) } }

C8_StateOk(lines, key, state) ==
    IF C8_Candidates(lines, key) = {} THEN state = None
    ELSE state \in C8_Candidates(lines, key)

C8_Systemctl ==
    (args.fn = "_systemctl_active_state" /\ result # None) =>
        /\ result[1].unit = args.unit
        /\ DOMAIN result[1] = {"unit", "active_state", "sub_state"}
        /\ args.proc.kind # "ok" =>
               result[1].active_state = None /\ result[1].sub_state = None
        /\ args.proc.kind = "ok" =>
               /\ C8_StateOk(args.lines, "ActiveState", result[1].active_state)
               /\ C8_StateOk(args.lines, "SubState", result[1].sub_state)

C8_Witness ==
    /\ args.fn = "_systemctl_active_state"
    /\ args.proc.kind = "nonzero_exit"
    /\ args.lines = << <<"ActiveState", "=", "active">>, <<"SubState", "=", "running">> >>
    /\ result # None
    /\ result[1].active_state = None
    /\ result[1].sub_state = None

(***************************************************************************)
(* C4: a probe that ends with HTTP status code s, as a response or as an   *)
(* HTTP-layer error, gives ok = (200 <= s < 500), http_status = s and      *)
(* error absent; 404 gives ok = true, 503 gives ok = false.                *)
(***************************************************************************)
C4_EndsWithStatus ==
    /\ args.fn = "_probe_http"
    /\ result # None
    /\ args.outcome.kind \in {"response", "HTTPError"}
    /\ args.outcome.status # None
    /\ args.outcome.status[1] \in 100..599

C4_ProbeStatus ==
    C4_EndsWithStatus =>
        LET s == args.outcome.status[1]
            r == result[1]
        IN  /\ ~r.raised
            /\ r.value.ok = (200 <= s /\ s < 500)
            /\ r.value.http_status = Some(s)
            /\ r.value.error = None
            /\ s = 404 => r.value.ok
            /\ s = 503 => ~r.value.ok

C4_Witness ==
    /\ C4_EndsWithStatus
    /\ args.outcome.kind = "HTTPError"
    /\ args.outcome.status = Some(404)
    /\ result[1].value.ok
    /\ result[1].value.http_status = Some(404)

(***************************************************************************)
(* C5: a probe that fails without an HTTP status (DNS, TLS, connection     *)
(* refusal, timeout) gives ok = false, http_status absent and a non-empty  *)
(* error string.                                                           *)
(***************************************************************************)
C5_ProbeError ==
    (args.fn = "_probe_http" /\ result # None /\ args.outcome.kind = "error") =>
        LET r == result[1]
        IN  /\ ~r.raised
            /\ ~r.value.ok
            /\ r.value.http_status = None
            /\ r.value.error # None
            /\ r.value.error[1] # ""

C5_Witness ==
    /\ args.fn = "_probe_http"
    /\ args.outcome.kind = "error"
    /\ args.outcome.err.text = "timed out"
    /\ result # None
    /\ result[1].value.error = Some("<urlopen error timed out>")
    /\ ~result[1].value.ok

(***************************************************************************)
(* C7: for every non-negative uptime of s seconds, with d = s div 86400,   *)
(* h = (s mod 86400) div 3600 and m = (s mod 3600) div 60, _human_uptime   *)
(* returns "{d}d {h}h {m}m" when d > 0, else "{h}h {m}m" when h > 0, else  *)
(* "{m}m"; the result is absent exactly when the uptime is absent; and     *)
(* 90 s gives "1m", 3700 s gives "1h 1m", 90000 s gives "1d 1h 0m".        *)
(***************************************************************************)
C7_Expected(secs) ==
    LET d == secs \div 86400
        h == (secs % 86400) \div 3600
        m == (secs % 3600) \div 60
    IN  IF d > 0 THEN ToString(d) \o "d " \o ToString(h) \o "h " \o ToString(m) \o "m"
        ELSE IF h > 0 THEN ToString(h) \o "h " \o ToString(m) \o "m"
        ELSE ToString(m) \o "m"

C7_HumanUptime ==
    (args.fn = "_human_uptime" /\ result # None) =>
        /\ (result[1] = None) <=> (args.seconds = None)
        /\ (args.seconds # None /\ args.seconds[1] >= 0) =>
               result[1] = Some(C7_Expected(args.seconds[1] \div 2))
        /\ args.seconds = Some(2 * 90) => result[1] = Some("1m")
        /\ args.seconds = Some(2 * 3700) => result[1] = Some("1h 1m")
        /\ args.seconds = Some(2 * 90000) => result[1] = Some("1d 1h 0m")

C7_Witness ==
    /\ args.fn = "_human_uptime"
    /\ args.seconds = Some(2 * 3700)
    /\ result = Some(Some("1h 1m"))

(***************************************************************************)
(* C6: _health is a function of (mem, disk, temp_c) only: each present     *)
(* reading adds +1 below its lower threshold (80 % / 70 C), 0 in           *)
(* [lower, upper) with upper 90 % / 80 C, -1 at or above the upper         *)
(* threshold; an absent reading adds nothing; good when the sum is >= 2,   *)
(* bad when <= -1, warn otherwise.  (50,50,40) is good, (95,50,40) is      *)
(* warn, (95,95,85) is bad.                                                *)
(***************************************************************************)
C6_Points(reading, lower, upper) ==
    IF reading = None THEN 0
    ELSE IF reading[1] >= upper THEN -1
    ELSE IF reading[1] >= lower THEN 0
    ELSE 1

C6_Pct(stats) == IF stats = None THEN None ELSE Some(stats[1].used_pct)

C6_Sum(mem, disk, temp_c) ==
    C6_Points(C6_Pct(mem), 800, 900) + C6_Points(C6_Pct(disk), 800, 900)
        + C6_Points(temp_c, 700, 800)

C6_Reading(pct) == Some([total_bytes |-> 1000, used_bytes |-> pct, used_pct |-> pct])

C6_Health ==
    (args.fn = "_health" /\ result # None) =>
        LET sum == C6_Sum(args.mem, args.disk, args.temp_c)
        IN  /\ result[1] = (IF sum >= 2 THEN "good" ELSE IF sum <= -1 THEN "bad" ELSE "warn")
            /\ (args.mem = C6_Reading(500) /\ args.disk = C6_Reading(500)
                  /\ args.temp_c = Some(400)) => result[1] = "good"
            /\ (args.mem = C6_Reading(950) /\ args.disk = C6_Reading(500)
                  /\ args.temp_c = Some(400)) => result[1] = "warn"
            /\ (args.mem = C6_Reading(950) /\ args.disk = C6_Reading(950)
                  /\ args.temp_c = Some(850)) => result[1] = "bad"

C6_Witness ==
    /\ args.fn = "_health"
    /\ args.mem = C6_Reading(950)
    /\ args.disk = C6_Reading(500)
    /\ args.temp_c = None
    /\ result = Some("warn")

(***************************************************************************)
(* C1: whatever the completion order and the probe outcomes, the list      *)
(* _public_endpoint_status returns has one entry per PUBLIC_ENDPOINTS      *)
(* entry, and its i-th entry carries the id, name and url of the i-th      *)
(* declared endpoint.                                                      *)
(***************************************************************************)
C1_ListComplete == pc \in {"pi", "services", "done"} \/ (pc = "assemble" /\ Len(ordered) = N)

C2_TaskRaised(i) == futures[i].st = "finished" /\ futures[i].out.raised

C2_CallEnded == pc \in {"error", "pi", "services", "done"}

C2_SyntheticOnTaskFailure ==
    (C2_CallEnded /\ \E i \in 1..N : C2_TaskRaised(i)) =>
        /\ pc # "error"
        /\ Len(ordered) = N
        /\ \A i \in 1..N :
              IF C2_TaskRaised(i)
              THEN ordered[i] = Entry(PUBLIC_ENDPOINTS[i],
                                      ProbeResult(FALSE, None, None, Some("Probe failed")))
              ELSE ordered[i] = Entry(PUBLIC_ENDPOINTS[i], futures[i].out.result)

(***************************************************************************)
(* C3: for every subset of failing sources, api_status returns a 200       *)
(* payload with the same keys, in which the fields of a failing source are *)
(* absent (or a per-item error result) and the fields of a non-failing     *)
(* source have the value the source gave.                                  *)
(***************************************************************************)
C3_UptimeFails == ~os.psutil \/ os.boot.st = "raise"

C3_Temp ==
    IF os.z0.st = "ok" /\ os.z0.isdigit THEN Some(os.z0.v \div 100)
    ELSE IF os.z1.st = "ok" /\ os.z1.isdigit THEN Some(os.z1.v \div 100)
    ELSE IF os.sensors.st = "ok"
            /\ \E g \in 1..Len(os.sensors.v) : os.sensors.v[g] # <<>>
    THEN Some(os.sensors.v[CHOOSE g \in 1..Len(os.sensors.v) :
                             /\ os.sensors.v[g] # <<>>
                             /\ \A h \in 1..(g - 1) : os.sensors.v[h] = <<>>][1])
    ELSE None

C3_MemFails == ~os.psutil \/ os.vm.st = "raise"

C3_DiskFails == os.du.st = "raise"

C3_NetFails == ~os.psutil \/ os.io.st = "raise"

C3_LoadFails == os.load.st = "raise"

C3_PayloadAsSourcesGave ==
    pc = "done" =>
        LET p == payload[1]
        IN  /\ DOMAIN p = {"ts", "public_endpoints", "pi", "services"}
            /\ DOMAIN p.pi = {"uptime_seconds", "uptime_human", "cpu_temp_c", "load_1m",
                              "mem", "disk", "net", "health"}
            /\ DOMAIN p.services = {"cloudflared", "gunicorn", "nginx"}
            /\ p.pi.uptime_seconds =
                   (IF C3_UptimeFails THEN None ELSE Some(20000 - os.boot.v))
            /\ (p.pi.uptime_human = None) <=> C3_UptimeFails
            /\ p.pi.cpu_temp_c = C3_Temp
            /\ p.pi.load_1m = (IF C3_LoadFails THEN None ELSE Some(os.load.v))
            /\ (p.pi.mem = None) <=> C3_MemFails
            /\ ~C3_MemFails => p.pi.mem[1].used_pct = os.vm.percent
            /\ (p.pi.disk = None) <=> C3_DiskFails
            /\ ~C3_DiskFails => p.pi.disk[1].used_bytes = os.du.used
            /\ (p.pi.net = None) <=> C3_NetFails
            /\ ~C3_NetFails => p.pi.net[1].tx_bytes = os.io.bytes_sent
            /\ p.pi.health \in {"good", "warn", "bad"}
            /\ \A j \in 1..Len(SERVICE_UNITS) :
                  LET svc == p.services[SERVICE_UNITS[j].key]
                  IN  /\ svc.unit = SERVICE_UNITS[j].unit
                      /\ (svc.active_state = None) <=> (os.svc[j].kind # "ok")
                      /\ (svc.sub_state = None) <=> (os.svc[j].kind # "ok")
            /\ Len(p.public_endpoints) = N
            /\ \A i \in 1..N :
                  p.public_endpoints[i] = Entry(PUBLIC_ENDPOINTS[i], futures[i].out.result)

C3_AlwaysPayload ==
    /\ pc # "error"
    /\ C3_PayloadAsSourcesGave

(***************************************************************************)
(* C9: the ordered list is built from results_by_id only after every       *)
(* submitted probe has completed, and a write to results_by_id fills only  *)
(* the slot of the endpoint whose probe was just collected.                *)
(***************************************************************************)
C9_Slot(dict, id) == DictGet(dict, id, ProbeResult(FALSE, None, None, Some("no slot")))

C9_Ids == { PUBLIC_ENDPOINTS[i].id : i \in 1..N } \cup {""}

C9_OwnSlotOnly ==
    (results_by_id' # results_by_id /\ results_by_id' # <<>>) =>
        \E i \in 1..N :
            /\ ~futures[i].seen
            /\ futures'[i].seen
            /\ C9_Slot(results_by_id', PUBLIC_ENDPOINTS[i].id) = futures[i].out.result
            /\ \A id \in C9_Ids \ {PUBLIC_ENDPOINTS[i].id} :
                  C9_Slot(results_by_id', id) = C9_Slot(results_by_id, id)

C9_ReadAfterAllComplete ==
    /\ [](pc = "assemble" => \A i \in 1..N : futures[i].st = "finished")
    /\ [][C9_OwnSlotOnly]_vars

C9_Witness ==
    /\ pc = "assemble"
    /\ Len(ordered) = 1
    /\ Len(results_by_id) = N
    /\ \A i \in 1..N : futures[i].st = "finished"

(***************************************************************************)
(* C10 as claimed: a session holds user_email only if its most recent      *)
(* OAuth callback presented a non-empty, verified e-mail of ALLOWED_EMAILS *)
(* and no logout happened since; and /api/status from a session without    *)
(* user_email is answered 401 by the gate.                                 *)
(***************************************************************************)
C10_Presented(cb) ==
    /\ cb.kind = "decided"
    /\ cb.email.addr # ""
    /\ cb.verified
    /\ Email(cb.email.addr, FALSE, FALSE) \in AllowedEmails(config.allowed_env)

C10_GateAnswers401 ==
    (response.path = <<"api", "status">> /\ ~response.authed) =>
        (response.view = "gate" /\ response.status = 401)

C10_MostRecentCallback ==
    /\ session.user_email # None =>
           (C10_Presented(hist.last) /\ ~hist.logout_since_last)
    /\ C10_GateAnswers401

(***************************************************************************)
(* C10 as amended: a session holds user_email only if the most recent      *)
(* OAuth callback that completed the token exchange presented a non-empty, *)
(* verified e-mail of ALLOWED_EMAILS, user_email is that e-mail stripped   *)
(* and lower-cased, and no logout happened since; a callback whose token   *)
(* exchange fails leaves the session as it was; and /api/status from a     *)
(* session without user_email is answered 401 by the gate.                 *)
(***************************************************************************)
C10_MostRecentCompletedCallback ==
    /\ session.user_email # None =>
           /\ C10_Presented(hist.decided)
           /\ ~hist.logout_since_decided
           /\ session.user_email = Some(Email(hist.decided.email.addr, FALSE, FALSE))
    /\ C10_GateAnswers401

C10_Witness ==
    /\ session.user_email = Some(Email("ann@x", FALSE, FALSE))
    /\ hist.decided.email = Email("ann@x", TRUE, TRUE)
    /\ hist.last.kind = "exchange_failed"
    /\ response.path = <<"auth", "google">>
    /\ response.status = 500
====
